---- MODULE Spec2Model ----
(***************************************************************************)
(* A model of AlphaException.cpp (the hybrid compile-time/run-time stack   *)
(* trace, its RAII guard and the exception that snapshots the trace) and   *)
(* of constexpr_map.cpp.                                                   *)
(*                                                                         *)
(* The specifications share the definitions of the classes:                *)
(*   Spec      threads that nest guarded scopes, throw, unwind and catch   *)
(*   SpecCopy  one such thread, plus the implicitly generated copy         *)
(*             constructor of StackFrameGuard                              *)
(*   SpecLog   one HybridStackTrace object driven through its public       *)
(*             add_dynamic_frame / pop_dynamic_frame                       *)
(*   SpecDemo  the program: main -> processOrder -> findOrder              *)
(*   SpecMinimal  the threads of Spec in a build of the MINIMAL strategy   *)
(*   SpecUpdate   a caller of UpdateOrder                                  *)
(*   SpecDemoFair SpecDemo, run to its end                                 *)
(*   SpecStatic   one CompileTimeStackTrace<N> object                      *)
(*   SpecMap      Map::at and lookup_value of constexpr_map.cpp            *)
(***************************************************************************)
EXTENDS Integers, Sequences, FiniteSets, TLC

VARIABLES
    logs,        \* thread_local current_trace: one HybridStackTrace per thread
    scopes,      \* per thread: the live StackFrameGuard objects, oldest first
    exc,         \* per thread: the AlphaException in flight or being handled
    terminated,  \* std::terminate was called (an exception found no handler)
    ret,         \* what the last accessor call returned
    balance,     \* per thread: guard pushes minus guard pops executed so far
    log,         \* SpecLog: a HybridStackTrace object used directly
    last,        \* SpecLog: the last operation applied to log, and log before it
    pc,          \* SpecDemo: the program's position
    id,          \* SpecDemo: the id main passes to processOrder
    orders,      \* the global order table
    out,         \* SpecDemo: what was written to std::cout
    result,      \* SpecDemo: processOrder's return value
    upd,         \* SpecUpdate: UpdateOrder's argument, and the table at the call
    lookup,      \* SpecMap: a Map, the key looked up and what at() gave
    cts          \* SpecStatic: a CompileTimeStackTrace<N> and the pushes made

vars == <<logs, scopes, exc, terminated, ret, balance, log, last,
          pc, id, orders, out, result, upd, lookup, cts>>

(***************************************************************************)
(* Bounds of the model.                                                    *)
(***************************************************************************)
\* Deepest nesting of guarded scopes on one thread.
MaxDepth == 3
\* Longest dynamic frame list of the directly driven log.
MaxLog == 3
\* Largest order id main is run with.
MaxId == 12

Threads == {"t1", "t2"}

(***************************************************************************)
(* CompileTimeFrame: a source location.  The default argument              *)
(* std::source_location::current() is evaluated where the frame is         *)
(* created, so a frame is identified by the place that creates it.         *)
(***************************************************************************)
CompileTimeFrame(fn, ln, col) ==
    [function_name |-> fn, file_name |-> "AlphaException.cpp",
     line |-> ln, column |-> col]

\* The frame a StackFrameGuard declared in function fn pushes.
GuardFrame(fn) ==
    CASE fn = "UpdateOrder"  -> CompileTimeFrame("UpdateOrder", 214, 40)
      [] fn = "findOrder"    -> CompileTimeFrame("findOrder", 226, 40)
      [] fn = "processOrder" -> CompileTimeFrame("processOrder", 238, 40)
      [] fn = "main"         -> CompileTimeFrame("main", 258, 49)

\* The frame created in the throw expression of function fn.
ThrowFrame(fn) ==
    CASE fn = "UpdateOrder" -> CompileTimeFrame("UpdateOrder", 220, 51)
      [] fn = "findOrder"   -> CompileTimeFrame("findOrder", 232, 51)

\* The message of the error function fn throws.
ThrowMessage(fn) ==
    CASE fn = "UpdateOrder" -> "update error : "
      [] fn = "findOrder"   -> "Bad Order id"

\* The frame the thread_local current_trace is constructed with.
StaticFrame == CompileTimeFrame("", 210, 35)

\* The place of a guard that pushed nothing.
NoFrame == CompileTimeFrame("<none>", 0, 0)

(***************************************************************************)
(* CompileTimeStackTrace<N>: frames_[0 .. current_size_) as a sequence.    *)
(***************************************************************************)
MaxFrames == 32

push_frame_unbounded(N, st, frame) == Append(st, frame)

push_frame(N, st, frame) ==
    IF Len(st) < N THEN Append(st, frame) ELSE st

(***************************************************************************)
(* HybridStackTrace<N>                                                     *)
(***************************************************************************)
HybridStackTrace_empty(frame) ==
    [static_frames_ |-> <<>>, dynamic_frames_ |-> <<>>]

HybridStackTrace(frame) ==
    [static_frames_ |-> push_frame(MaxFrames, <<>>, frame),
     dynamic_frames_ |-> <<>>]

add_dynamic_frame_front(tr, frame) ==
    [tr EXCEPT !.dynamic_frames_ = <<frame>> \o @]

add_dynamic_frame_static(tr, frame) ==
    [tr EXCEPT !.static_frames_ = Append(@, frame),
               !.dynamic_frames_ = Append(@, frame)]

add_dynamic_frame(tr, frame) ==
    [tr EXCEPT !.dynamic_frames_ = Append(@, frame)]

pop_dynamic_frame_first(tr) ==
    IF tr.dynamic_frames_ # <<>>
    THEN [tr EXCEPT !.dynamic_frames_ = Tail(@)]
    ELSE tr

pop_dynamic_frame_clear(tr) ==
    [tr EXCEPT !.dynamic_frames_ = <<>>]

pop_dynamic_frame_unchecked(tr) ==
    IF Len(tr.dynamic_frames_) = 0
    THEN [tr EXCEPT !.dynamic_frames_ = <<CompileTimeFrame("<garbage>", 0, 0)>>]
    ELSE [tr EXCEPT !.dynamic_frames_ = SubSeq(@, 1, Len(@) - 1)]

pop_dynamic_frame(tr) ==
    IF Len(tr.dynamic_frames_) # 0
    THEN [tr EXCEPT !.dynamic_frames_ = SubSeq(@, 1, Len(@) - 1)]
    ELSE tr

Render_newest_first(tr) ==
    [i \in 1..Len(tr.static_frames_) |->
        [label |-> "Static", frame |-> tr.static_frames_[i]]]
    \o
    [i \in 1..Len(tr.dynamic_frames_) |->
        [label |-> "Dynamic",
         frame |-> tr.dynamic_frames_[Len(tr.dynamic_frames_) + 1 - i]]]

\* operator<<: one line per frame, the static frames first.
Render(tr) ==
    [i \in 1..Len(tr.static_frames_) |->
        [label |-> "Static", frame |-> tr.static_frames_[i]]]
    \o
    [i \in 1..Len(tr.dynamic_frames_) |->
        [label |-> "Dynamic", frame |-> tr.dynamic_frames_[i]]]

(***************************************************************************)
(* StackFrameGuard<N>: the constructor and the destructor, as the effect   *)
(* on the trace the guard's reference trace_ is bound to.                  *)
(***************************************************************************)
StackFrameGuard_ctor_nopush(tr, frame) == tr

StackFrameGuard_ctor(tr, frame) == add_dynamic_frame(tr, frame)

StackFrameGuard_dtor_nopop(tr) == tr

StackFrameGuard_dtor(tr) == pop_dynamic_frame(tr)

(***************************************************************************)
(* thread_local HybridStackTrace<32> current_trace: the instance thread t  *)
(* names by current_trace.                                                 *)
(***************************************************************************)
current_trace_global(t) == CHOOSE u \in Threads : TRUE

current_trace(t) == t

(***************************************************************************)
(* AlphaException<DATA_T, MaxFrames>.  trace_arg is the object the         *)
(* constructor's reference parameter trace is bound to; backtrace_ is the  *)
(* member, copy-initialised from it.                                       *)
(***************************************************************************)
AlphaException_default_trace(str, data, loc, traceRef) ==
    [err_str |-> str, data_ |-> data, location_ |-> loc,
     backtrace_ |-> HybridStackTrace(loc),
     trace_arg |-> traceRef]

AlphaException(str, data, loc, traceRef) ==
    [err_str |-> str, data_ |-> data, location_ |-> loc,
     backtrace_ |-> logs[traceRef],
     trace_arg |-> traceRef]

\* The constructor called without its last two arguments: both default
\* arguments, CompileTimeFrame{} and HybridStackTrace<MaxFrames>{}, are
\* evaluated at the place of the call.
AlphaException_defaulted(str, data, site) ==
    [err_str |-> str, data_ |-> data, location_ |-> site,
     backtrace_ |-> HybridStackTrace(site),
     trace_arg |-> "temporary"]

data(e) == e.data_

what(e) == e.err_str

where_static(e) == e.backtrace_.static_frames_[1]

where(e) == e.location_

stack_live(e) == logs[e.trace_arg]

stack(e) == e.backtrace_

(***************************************************************************)
(* The instrumented functions the threads of Spec call, in any nesting:    *)
(* each declares a guard first; findOrder throws; processOrder encloses    *)
(* its callees in a try block whose handler catches the exception type     *)
(* they throw.  ("copy" is a block that holds a copy of a guard.)          *)
(***************************************************************************)
Functions == {"processOrder", "findOrder"}

Throws(fn) == fn \in {"findOrder", "UpdateOrder"}

HasHandler(fn) == fn = "processOrder"

NoTrace == [static_frames_ |-> <<>>, dynamic_frames_ |-> <<>>]

NoException(t) ==
    [phase |-> "none",
     err |-> [err_str |-> "", data_ |-> "nullptr", location_ |-> NoFrame,
              backtrace_ |-> NoTrace, trace_arg |-> t],
     g_args |-> [str |-> "", data |-> "nullptr", loc |-> NoFrame],
     g_trace |-> NoTrace,
     g_guards |-> <<>>, g_k |-> 0, popped |-> 0, hdepth |-> 0]

NoRet == [op |-> "none"]

\* The frames pushed by the live guards of a thread, oldest first.
Pushed(sc) == [i \in 1..Len(sc) |-> sc[i].pushed]

\* The number of scopes above the innermost scope that has a handler
\* (all of them when none has).
LevelsToHandler(sc) ==
    LET hs == {i \in 1..Len(sc) : HasHandler(sc[i].fn)}
    IN  IF hs = {} THEN Len(sc)
        ELSE Len(sc) - (CHOOSE i \in hs : \A j \in hs : j <= i)

LogInit ==
    /\ log = HybridStackTrace(StaticFrame)
    /\ last = [op |-> "none", prev |-> "none", arg |-> NoFrame,
               before |-> HybridStackTrace(StaticFrame),
               before2 |-> HybridStackTrace(StaticFrame)]

DemoIdle ==
    /\ pc = "idle"
    /\ id = 0
    /\ out = <<>>
    /\ result = FALSE

NoOrder == [id_ |-> 0, value_ |-> 0]

\* Nothing of SpecUpdate, SpecMap and SpecStatic is in use.
ScratchIdle ==
    /\ upd = [ord |-> NoOrder, before |-> <<>>, log |-> NoTrace]
    /\ lookup = [data |-> <<>>, key |-> "", res |-> [op |-> "none"]]
    /\ cts = [N |-> 0, frames_ |-> <<>>, calls |-> 0, prev |-> <<>>]

\* The state after static initialisation: the order table, and for every
\* thread a current_trace holding its construction frame and nothing else.
BaseInit ==
    /\ logs = [t \in Threads |-> HybridStackTrace(StaticFrame)]
    /\ scopes = [t \in Threads |-> <<>>]
    /\ exc = [t \in Threads |-> NoException(t)]
    /\ terminated = FALSE
    /\ ret = NoRet
    /\ balance = [t \in Threads |-> 0]
    /\ orders = (1 :> [id_ |-> 1, value_ |-> 2] @@ 11 :> [id_ |-> 11, value_ |-> 5])

Init == BaseInit /\ LogInit /\ DemoIdle /\ ScratchIdle

\* StackFrameGuard guard(current_trace) in function fn on thread t.
GuardConstructed(t, fn) ==
    /\ LET tr == current_trace(t) IN
        /\ logs' = [logs EXCEPT ![tr] = StackFrameGuard_ctor(@, GuardFrame(fn))]
        /\ scopes' = [scopes EXCEPT ![t] =
                        Append(@, [fn |-> fn, pushed |-> GuardFrame(fn), trace_ |-> tr])]
    /\ balance' = [balance EXCEPT ![t] = @ + 1]

\* The youngest guard of thread t goes out of scope.
GuardDestroyed(t) ==
    /\ LET g == scopes[t][Len(scopes[t])] IN
        logs' = [logs EXCEPT ![g.trace_] = StackFrameGuard_dtor(@)]
    /\ scopes' = [scopes EXCEPT ![t] = SubSeq(@, 1, Len(@) - 1)]
    /\ balance' = [balance EXCEPT ![t] = @ - 1]

\* throw MyExceptionErrsVoid(message, nullptr, CompileTimeFrame{}, current_trace)
\* in function fn on thread t.
Thrown(t, fn) ==
    [phase |-> "unwinding",
     err |-> AlphaException(ThrowMessage(fn), "nullptr",
                            ThrowFrame(fn), current_trace(t)),
     g_args |-> [str |-> ThrowMessage(fn), data |-> "nullptr",
                 loc |-> ThrowFrame(fn)],
     g_trace |-> logs[current_trace(t)],
     g_guards |-> Pushed(scopes[t]),
     g_k |-> LevelsToHandler(scopes[t]),
     popped |-> 0, hdepth |-> 0]

\* A function is entered: its StackFrameGuard is constructed.
Enter(t, fn) ==
    /\ ~terminated
    /\ exc[t].phase \in {"none", "handled"}
    /\ Len(scopes[t]) < MaxDepth
    /\ GuardConstructed(t, fn)
    /\ ret' = NoRet
    /\ UNCHANGED <<exc, terminated, log, last, pc, id, orders, out, result,
                   upd, lookup, cts>>

\* The innermost scope is left by a normal return: its guard is destroyed.
\* A function whose handler is running does not return before it ends.
Return(t) ==
    /\ ~terminated
    /\ \/ exc[t].phase = "none" /\ Len(scopes[t]) > 0
       \/ exc[t].phase = "handled" /\ Len(scopes[t]) > exc[t].hdepth
    /\ GuardDestroyed(t)
    /\ ret' = NoRet
    /\ UNCHANGED <<exc, terminated, log, last, pc, id, orders, out, result,
                   upd, lookup, cts>>

\* The innermost function throws: the AlphaException is constructed from
\* current_trace and starts to propagate.
Throw(t) ==
    /\ ~terminated
    /\ exc[t].phase = "none"
    /\ Len(scopes[t]) > 0
    /\ LET fn == scopes[t][Len(scopes[t])].fn IN
        /\ Throws(fn)
        /\ exc' = [exc EXCEPT ![t] = Thrown(t, fn)]
    /\ ret' = NoRet
    /\ UNCHANGED <<logs, scopes, terminated, balance, log, last,
                   pc, id, orders, out, result,
                   upd, lookup, cts>>

\* The exception leaves a scope that has no handler: its guard is destroyed.
Unwind(t) ==
    /\ ~terminated
    /\ exc[t].phase = "unwinding"
    /\ Len(scopes[t]) > 0
    /\ ~HasHandler(scopes[t][Len(scopes[t])].fn)
    /\ GuardDestroyed(t)
    /\ exc' = [exc EXCEPT ![t].popped = @ + 1]
    /\ ret' = NoRet
    /\ UNCHANGED <<terminated, log, last, pc, id, orders, out, result,
                   upd, lookup, cts>>

\* The exception reaches a function whose try block encloses the call: the
\* handler is entered, the function's own guard stays alive.
Catch(t) ==
    /\ ~terminated
    /\ exc[t].phase = "unwinding"
    /\ Len(scopes[t]) > 0
    /\ HasHandler(scopes[t][Len(scopes[t])].fn)
    /\ exc' = [exc EXCEPT ![t].phase = "handled", ![t].hdepth = Len(scopes[t])]
    /\ ret' = NoRet
    /\ UNCHANGED <<logs, scopes, terminated, balance, log, last,
                   pc, id, orders, out, result,
                   upd, lookup, cts>>

\* The handler ends: the exception object is destroyed.
HandlerEnd(t) ==
    /\ ~terminated
    /\ exc[t].phase = "handled"
    /\ Len(scopes[t]) = exc[t].hdepth
    /\ exc' = [exc EXCEPT ![t] = NoException(t)]
    /\ ret' = NoRet
    /\ UNCHANGED <<logs, scopes, terminated, balance, log, last,
                   pc, id, orders, out, result,
                   upd, lookup, cts>>

\* No enclosing scope has a handler: std::terminate.  Whether the stack is
\* unwound first is implementation-defined, so this may happen at any depth.
Terminate(t) ==
    /\ ~terminated
    /\ exc[t].phase = "unwinding"
    /\ \A i \in 1..Len(scopes[t]) : ~HasHandler(scopes[t][i].fn)
    /\ terminated' = TRUE
    /\ ret' = NoRet
    /\ UNCHANGED <<logs, scopes, exc, balance, log, last,
                   pc, id, orders, out, result,
                   upd, lookup, cts>>

\* The handler calls one of the accessors on the exception it caught.
Accessors == {"data", "what", "where", "stack"}

Access(op, e) ==
    CASE op = "data"  -> data(e)
      [] op = "what"  -> what(e)
      [] op = "where" -> where(e)
      [] op = "stack" -> stack(e)

Read(t, op) ==
    /\ ~terminated
    /\ exc[t].phase = "handled"
    /\ ret' = [op |-> op, of |-> t, value |-> Access(op, exc[t].err)]
    /\ UNCHANGED <<logs, scopes, exc, terminated, balance, log, last,
                   pc, id, orders, out, result,
                   upd, lookup, cts>>

ThreadStep(t) ==
    \/ \E fn \in Functions : Enter(t, fn)
    \/ Return(t)
    \/ Throw(t)
    \/ Unwind(t)
    \/ Catch(t)
    \/ HandlerEnd(t)
    \/ Terminate(t)
    \/ \E op \in Accessors : Read(t, op)

Next == \E t \in Threads : ThreadStep(t)

Spec == Init /\ [][Next]_vars

(***************************************************************************)
(* StackFrameGuard declares a destructor and no copy constructor, so the   *)
(* compiler generates one (a reference member forbids only assignment):    *)
(* the copy is bound to the same trace and its construction pushes         *)
(* nothing.  Its destructor is the one above.                              *)
(***************************************************************************)
CopyGuard(t) ==
    /\ ~terminated
    /\ exc[t].phase \in {"none", "handled"}
    /\ Len(scopes[t]) > 0
    /\ Len(scopes[t]) < MaxDepth
    /\ balance[t] >= 0
    /\ LET g == scopes[t][Len(scopes[t])] IN
        scopes' = [scopes EXCEPT ![t] =
                    Append(@, [fn |-> "copy", pushed |-> NoFrame, trace_ |-> g.trace_])]
    /\ ret' = NoRet
    /\ UNCHANGED <<logs, exc, terminated, balance, log, last,
                   pc, id, orders, out, result,
                   upd, lookup, cts>>

\* One thread suffices: the guard operations of a thread, and copies.
NextCopy ==
    \/ \E fn \in Functions : Enter("t1", fn)
    \/ Return("t1")
    \/ Throw("t1")
    \/ Unwind("t1")
    \/ Catch("t1")
    \/ HandlerEnd("t1")
    \/ Terminate("t1")
    \/ CopyGuard("t1")

SpecCopy == Init /\ [][NextCopy]_vars

(***************************************************************************)
(* SpecLog: a HybridStackTrace object used through its public interface,   *)
(* in every order of add_dynamic_frame and pop_dynamic_frame.              *)
(***************************************************************************)
AllFunctions == {"main", "processOrder", "findOrder", "UpdateOrder"}

LogAdd(fn) ==
    /\ Len(log.dynamic_frames_) < MaxLog
    /\ log' = add_dynamic_frame(log, GuardFrame(fn))
    /\ last' = [op |-> "add", prev |-> last.op, arg |-> GuardFrame(fn),
                before |-> log, before2 |-> last.before]
    /\ UNCHANGED <<logs, scopes, exc, terminated, ret, balance,
                   pc, id, orders, out, result,
                   upd, lookup, cts>>

LogPop ==
    /\ log' = pop_dynamic_frame(log)
    /\ last' = [op |-> "pop", prev |-> last.op, arg |-> NoFrame,
                before |-> log, before2 |-> last.before]
    /\ UNCHANGED <<logs, scopes, exc, terminated, ret, balance,
                   pc, id, orders, out, result,
                   upd, lookup, cts>>

NextLog == (\E fn \in AllFunctions : LogAdd(fn)) \/ LogPop

SpecLog == Init /\ [][NextLog]_vars

(***************************************************************************)
(* SpecDemo: the program.  main runs on thread "t1"; the id it passes to   *)
(* processOrder (10 in the source) is drawn from 0 .. MaxId.               *)
(***************************************************************************)
MainThread == "t1"

OutLine(text, msg, frame, nums) ==
    [text |-> text, msg |-> msg, frame |-> frame, nums |-> nums]

\* os << trace, as lines of std::cout.
RenderLines(tr) ==
    [i \in 1..Len(Render(tr)) |->
        OutLine(Render(tr)[i].label, "", Render(tr)[i].frame, <<>>)]

InitDemo ==
    /\ BaseInit
    /\ LogInit
    /\ ScratchIdle
    /\ pc = "main"
    /\ id \in 0..MaxId
    /\ out = <<>>
    /\ result = FALSE

\* main: the try block is entered and main_guard constructed.
main_Start ==
    /\ pc = "main"
    /\ GuardConstructed(MainThread, "main")
    /\ pc' = "main_call"
    /\ UNCHANGED <<exc, terminated, ret, log, last, id, orders, out, result,
                   upd, lookup, cts>>

\* processOrder(id) is called: its guard is constructed, its try block entered.
processOrder_Enter ==
    /\ pc = "main_call"
    /\ GuardConstructed(MainThread, "processOrder")
    /\ pc' = "processOrder_try"
    /\ UNCHANGED <<exc, terminated, ret, log, last, id, orders, out, result,
                   upd, lookup, cts>>

\* findOrder(id) is called: its guard is constructed.
findOrder_Enter ==
    /\ pc = "processOrder_try"
    /\ GuardConstructed(MainThread, "findOrder")
    /\ pc' = "findOrder_find"
    /\ UNCHANGED <<exc, terminated, ret, log, last, id, orders, out, result,
                   upd, lookup, cts>>

\* findOrder: orders.find(id) == orders.end(), the error is thrown.
findOrder_Throw ==
    /\ pc = "findOrder_find"
    /\ id \notin DOMAIN orders
    /\ exc' = [exc EXCEPT ![MainThread] = Thrown(MainThread, "findOrder")]
    /\ pc' = "propagate"
    /\ UNCHANGED <<logs, scopes, terminated, ret, balance, log, last,
                   id, orders, out, result,
                   upd, lookup, cts>>

\* findOrder: the order is found and returned; the guard is destroyed.
findOrder_Return ==
    /\ pc = "findOrder_find"
    /\ id \in DOMAIN orders
    /\ GuardDestroyed(MainThread)
    /\ pc' = "processOrder_found"
    /\ UNCHANGED <<exc, terminated, ret, log, last, id, orders, out, result,
                   upd, lookup, cts>>

\* The exception leaves the innermost scope: out of findOrder (its guard is
\* destroyed), into the handler of processOrder (catch (MyExceptionErrsVoid&),
\* the guard of processOrder stays), or out of main's try block (main_guard
\* is destroyed) into catch (...).
Propagate ==
    /\ pc = "propagate"
    /\ LET fn == scopes[MainThread][Len(scopes[MainThread])].fn IN
        CASE fn = "findOrder" ->
                /\ GuardDestroyed(MainThread)
                /\ exc' = [exc EXCEPT ![MainThread].popped = @ + 1]
                /\ pc' = "propagate"
          [] fn = "processOrder" ->
                /\ exc' = [exc EXCEPT ![MainThread].phase = "handled",
                                      ![MainThread].hdepth = Len(scopes[MainThread])]
                /\ pc' = "processOrder_catch"
                /\ UNCHANGED <<logs, scopes, balance>>
          [] fn = "main" ->
                /\ GuardDestroyed(MainThread)
                /\ exc' = [exc EXCEPT ![MainThread].phase = "handled",
                                      ![MainThread].popped = @ + 1]
                /\ pc' = "main_catch"
    /\ UNCHANGED <<terminated, ret, log, last, id, orders, out, result,
                   upd, lookup, cts>>

\* processOrder's handler: the [where] line, the [stack] line and the trace
\* are printed; the handler ends and the exception is destroyed.
processOrder_Handler ==
    /\ pc = "processOrder_catch"
    /\ LET e == exc[MainThread].err IN
        out' = out
               \o <<OutLine("[where] Failed to process : ", what(e), where(e), <<>>)>>
               \o <<OutLine("[stack] Failed to process : ", what(e), NoFrame, <<>>)>>
               \o RenderLines(stack(e))
    /\ exc' = [exc EXCEPT ![MainThread] = NoException(MainThread)]
    /\ result' = FALSE
    /\ pc' = "processOrder_return"
    /\ UNCHANGED <<logs, scopes, terminated, ret, balance, log, last, id, orders,
                   upd, lookup, cts>>

\* processOrder: the order was found; it is printed and true is returned.
processOrder_Found ==
    /\ pc = "processOrder_found"
    /\ out' = Append(out, OutLine("Found order id : ", "", NoFrame,
                                  <<id, orders[id].value_>>))
    /\ result' = TRUE
    /\ pc' = "processOrder_return"
    /\ UNCHANGED <<logs, scopes, exc, terminated, ret, balance, log, last, id, orders,
                   upd, lookup, cts>>

\* processOrder returns: its guard is destroyed.
processOrder_Return ==
    /\ pc = "processOrder_return"
    /\ GuardDestroyed(MainThread)
    /\ pc' = "main_if"
    /\ UNCHANGED <<exc, terminated, ret, log, last, id, orders, out, result,
                   upd, lookup, cts>>

\* main: "success" is printed when processOrder returned true; the try block
\* ends and main_guard is destroyed.
main_AfterCall ==
    /\ pc = "main_if"
    /\ out' = IF result THEN Append(out, OutLine("success", "", NoFrame, <<>>)) ELSE out
    /\ GuardDestroyed(MainThread)
    /\ pc' = "main_end"
    /\ UNCHANGED <<exc, terminated, ret, log, last, id, orders, result,
                   upd, lookup, cts>>

\* main: after the try statement (through catch (...) or not), "End".
main_End ==
    /\ pc \in {"main_end", "main_catch"}
    /\ out' = (IF pc = "main_catch"
               THEN Append(out, OutLine("Unknown exception", "", NoFrame, <<>>))
               ELSE out)
              \o <<OutLine("End", "", NoFrame, <<>>)>>
    /\ exc' = [exc EXCEPT ![MainThread] = NoException(MainThread)]
    /\ pc' = "done"
    /\ UNCHANGED <<logs, scopes, terminated, ret, balance, log, last, id, orders, result,
                   upd, lookup, cts>>

NextDemo ==
    \/ main_Start
    \/ processOrder_Enter
    \/ findOrder_Enter
    \/ findOrder_Throw
    \/ findOrder_Return
    \/ Propagate
    \/ processOrder_Handler
    \/ processOrder_Found
    \/ processOrder_Return
    \/ main_AfterCall
    \/ main_End

SpecDemo == InitDemo /\ [][NextDemo]_vars

\* The program is one thread that runs until main returns.
SpecDemoFair == SpecDemo /\ WF_vars(NextDemo)

(***************************************************************************)
(* SpecUpdate: a caller on the main thread, with or without a guard of its *)
(* own, calls UpdateOrder with any order, catches what it throws, and      *)
(* calls again.                                                            *)
(***************************************************************************)
OrderValues == {2, 5, 7}

Orders == [id_ : 0..MaxId, value_ : OrderValues]

UpdateOrder_keep(tbl, ord) == tbl

\* it->second = ord, for it = orders.find(ord.id_) other than orders.end().
UpdateOrder_assign(tbl, ord) == [tbl EXCEPT ![ord.id_] = ord]

InitUpdate ==
    /\ BaseInit
    /\ LogInit
    /\ ScratchIdle
    /\ pc = "caller"
    /\ id = 0
    /\ out = <<>>
    /\ result = FALSE

\* The caller constructs a guard of its own before it calls.
Caller_Guard ==
    /\ pc = "caller"
    /\ scopes[MainThread] = <<>>
    /\ GuardConstructed(MainThread, "main")
    /\ ret' = NoRet
    /\ UNCHANGED <<exc, terminated, log, last, pc, id, orders, out, result,
                   upd, lookup, cts>>

\* UpdateOrder(ord) is called: its guard is constructed.
UpdateOrder_Enter(ord) ==
    /\ pc = "caller"
    /\ GuardConstructed(MainThread, "UpdateOrder")
    /\ upd' = [ord |-> ord, before |-> orders,
               log |-> logs[current_trace(MainThread)]]
    /\ ret' = NoRet
    /\ pc' = "UpdateOrder_find"
    /\ UNCHANGED <<exc, terminated, log, last, id, orders, out, result,
                   lookup, cts>>

\* UpdateOrder: orders.find(ord.id_) == orders.end(), the error is thrown.
UpdateOrder_Throw ==
    /\ pc = "UpdateOrder_find"
    /\ upd.ord.id_ \notin DOMAIN orders
    /\ exc' = [exc EXCEPT ![MainThread] = Thrown(MainThread, "UpdateOrder")]
    /\ pc' = "UpdateOrder_unwind"
    /\ UNCHANGED <<logs, scopes, terminated, ret, balance, log, last,
                   id, orders, out, result,
                   upd, lookup, cts>>

\* The exception leaves UpdateOrder: its guard is destroyed, and the
\* caller's handler is entered.
UpdateOrder_Unwind ==
    /\ pc = "UpdateOrder_unwind"
    /\ GuardDestroyed(MainThread)
    /\ exc' = [exc EXCEPT ![MainThread].phase = "handled",
                          ![MainThread].popped = @ + 1,
                          ![MainThread].hdepth = Len(scopes[MainThread]) - 1]
    /\ pc' = "caller_catch"
    /\ UNCHANGED <<terminated, ret, log, last, id, orders, out, result,
                   upd, lookup, cts>>

\* UpdateOrder: return it->second = ord; the guard is destroyed.
UpdateOrder_Return ==
    /\ pc = "UpdateOrder_find"
    /\ upd.ord.id_ \in DOMAIN orders
    /\ orders' = UpdateOrder_assign(orders, upd.ord)
    /\ ret' = [op |-> "UpdateOrder", value |-> orders'[upd.ord.id_]]
    /\ GuardDestroyed(MainThread)
    /\ pc' = "caller_returned"
    /\ UNCHANGED <<exc, terminated, log, last, id, out, result,
                   upd, lookup, cts>>

\* The caller goes on: its handler ends, or it drops the returned order.
Caller_Continue ==
    /\ pc \in {"caller_catch", "caller_returned"}
    /\ exc' = [exc EXCEPT ![MainThread] = NoException(MainThread)]
    /\ ret' = NoRet
    /\ pc' = "caller"
    /\ UNCHANGED <<logs, scopes, terminated, balance, log, last,
                   id, orders, out, result,
                   upd, lookup, cts>>

NextUpdate ==
    \/ Caller_Guard
    \/ \E ord \in Orders : UpdateOrder_Enter(ord)
    \/ UpdateOrder_Throw
    \/ UpdateOrder_Unwind
    \/ UpdateOrder_Return
    \/ Caller_Continue

SpecUpdate == InitUpdate /\ [][NextUpdate]_vars

(***************************************************************************)
(* SpecStatic: a CompileTimeStackTrace<N> object, for every N up to MaxN,  *)
(* that push_frame is called on up to MaxCalls times.                      *)
(***************************************************************************)
MaxN == 3
MaxCalls == 5

InitStatic ==
    /\ BaseInit
    /\ LogInit
    /\ DemoIdle
    /\ upd = [ord |-> NoOrder, before |-> <<>>, log |-> NoTrace]
    /\ lookup = [data |-> <<>>, key |-> "", res |-> [op |-> "none"]]
    /\ \E N \in 1..MaxN :
         cts = [N |-> N, frames_ |-> <<>>, calls |-> 0, prev |-> <<>>]

\* push_frame(frame) is called on the container.
PushFrame(fn) ==
    /\ cts.calls < MaxCalls
    /\ cts' = [cts EXCEPT !.frames_ = push_frame(cts.N, @, GuardFrame(fn)),
                          !.calls = @ + 1,
                          !.prev = cts.frames_]
    /\ UNCHANGED <<logs, scopes, exc, terminated, ret, balance, log, last,
                   pc, id, orders, out, result, upd, lookup>>

NextStatic == \E fn \in AllFunctions : PushFrame(fn)

SpecStatic == InitStatic /\ [][NextStatic]_vars

(***************************************************************************)
(* constexpr_map.cpp.  SpecMap: a Map object of up to MaxPairs pairs, or   *)
(* the colour map of lookup_value, that at is called on.                   *)
(***************************************************************************)
MaxPairs == 3

\* std::find_if(begin(data), end(data), v.first == key), from position i:
\* the position of the first match, Len(data) + 1 (end) when there is none.
RECURSIVE find_if(_, _, _)
find_if(arr, i, key) ==
    IF i > Len(arr) THEN i
    ELSE IF arr[i][1] = key THEN i
    ELSE find_if(arr, i + 1, key)

at_last(arr, key) ==
    LET ms == {i \in 1..Len(arr) : arr[i][1] = key}
    IN  IF ms # {}
        THEN [op |-> "return",
              value |-> arr[CHOOSE i \in ms : \A j \in ms : j <= i][2]]
        ELSE [op |-> "throw", what |-> "Not Found"]

\* Map::at
at(arr, key) ==
    LET itr == find_if(arr, 1, key)
    IN  IF itr # Len(arr) + 1
        THEN [op |-> "return", value |-> arr[itr][2]]
        ELSE [op |-> "throw", what |-> "Not Found"]

color_values ==
    << <<"black", 7>>, <<"blue", 3>>, <<"cyan", 5>>, <<"green", 2>>,
       <<"magenta", 6>>, <<"red", 1>>, <<"white", 8>>, <<"yellow", 4>> >>

lookup_value(sv) == at(color_values, sv)

\* The keys and values of the Map objects, and the strings looked up.
Keys == {"red", "blue", "green"}

Values == {1, 2}

Pairs == {<<k, v>> : k \in Keys \ {"green"}, v \in Values}

Arrays == UNION {[1..n -> Pairs] : n \in 0..MaxPairs}

Strings ==
    {color_values[i][1] : i \in 1..Len(color_values)}
    \cup {"", "Red", "re", "reds", "orange"}

InitMap ==
    /\ BaseInit
    /\ LogInit
    /\ DemoIdle
    /\ upd = [ord |-> NoOrder, before |-> <<>>, log |-> NoTrace]
    /\ cts = [N |-> 0, frames_ |-> <<>>, calls |-> 0, prev |-> <<>>]
    /\ \E arr \in Arrays \cup {color_values} :
         lookup = [data |-> arr, key |-> "", res |-> [op |-> "none"]]

\* map.at(key) on a Map object.
MapAt(key) ==
    /\ lookup.data # color_values
    /\ lookup' = [lookup EXCEPT !.key = key, !.res = at(lookup.data, key)]
    /\ UNCHANGED <<logs, scopes, exc, terminated, ret, balance, log, last,
                   pc, id, orders, out, result, upd, cts>>

\* lookup_value(sv)
LookupValue(sv) ==
    /\ lookup.data = color_values
    /\ lookup' = [lookup EXCEPT !.key = sv, !.res = lookup_value(sv)]
    /\ UNCHANGED <<logs, scopes, exc, terminated, ret, balance, log, last,
                   pc, id, orders, out, result, upd, cts>>

NextMap ==
    \/ \E key \in Keys : MapAt(key)
    \/ \E sv \in Strings : LookupValue(sv)

SpecMap == InitMap /\ [][NextMap]_vars

(***************************************************************************)
(* SpecMinimal: a build of the MINIMAL trace strategy.  The strategy is a  *)
(* build-time choice; under MINIMAL an error records its origin and no     *)
(* call chain: it is constructed without a trace argument.                 *)
(***************************************************************************)
MinimalStrategyError(str, payload, site) == AlphaException_defaulted(str, payload, site)

\* An error is raised in function fn, under the guards alive on the thread
\* (none when the thread is in no instrumented function).
ThrowMinimal(t, fn) ==
    /\ ~terminated
    /\ exc[t].phase = "none"
    /\ Throws(fn)
    /\ Len(scopes[t]) > 0 => scopes[t][Len(scopes[t])].fn = fn
    /\ exc' = [exc EXCEPT ![t] =
                [Thrown(t, fn) EXCEPT
                    !.err = MinimalStrategyError(ThrowMessage(fn), "nullptr",
                                                 ThrowFrame(fn))]]
    /\ ret' = NoRet
    /\ UNCHANGED <<logs, scopes, terminated, balance, log, last,
                   pc, id, orders, out, result,
                   upd, lookup, cts>>

MinimalStep(t) ==
    \/ \E fn \in Functions : Enter(t, fn)
    \/ Return(t)
    \/ \E fn \in Functions : ThrowMinimal(t, fn)
    \/ Unwind(t)
    \/ Catch(t)
    \/ HandlerEnd(t)
    \/ Terminate(t)

NextMinimal == \E t \in Threads : MinimalStep(t)

SpecMinimal == Init /\ [][NextMinimal]_vars

(***************************************************************************)
(* Properties                                                              *)
(***************************************************************************)
Dynamic(t) == logs[current_trace(t)].dynamic_frames_

\* C1: in every reachable state, on every thread, the number of dynamic
\* frames in the thread's trace log equals the number of StackFrameGuard
\* objects alive on that thread.
C1_FrameCountEqualsLiveGuards ==
    \A t \in Threads : Len(Dynamic(t)) = Len(scopes[t])

\* An exception has passed through one guarded scope and two guards are
\* still alive.
C1_Witness ==
    \E t \in Threads :
        /\ exc[t].phase = "unwinding"
        /\ exc[t].popped >= 1
        /\ Len(scopes[t]) = 2
        /\ Len(Dynamic(t)) = 2

\* C2: the log holds exactly one entry per live guard of the thread,
\* outermost first: the i-th entry is the frame the i-th oldest live guard
\* pushed (so the last entry, the one a destructor removes, is the frame of
\* the youngest guard, the one being destroyed).
C2_OneEntryPerGuardOutermostFirst ==
    \A t \in Threads : Dynamic(t) = Pushed(scopes[t])

\* Guards of two different functions are alive, after the guard of a third
\* scope was destroyed by an exception.
C2_Witness ==
    \E t \in Threads :
        /\ exc[t].popped >= 1
        /\ Len(scopes[t]) = 2
        /\ scopes[t][1].pushed # scopes[t][2].pushed
        /\ Dynamic(t) = <<scopes[t][1].pushed, scopes[t][2].pushed>>

\* All the frames a trace holds, in the order operator<< prints them.
Frames(tr) == tr.static_frames_ \o tr.dynamic_frames_

\* C3 as stated: the trace of an error constructed while exactly the
\* guarded frames [A, B, C] are active contains those frames, in that
\* order, and no other frame.
C3_TraceIsExactlyGuardFrames ==
    \A t \in Threads :
        exc[t].phase # "none" => Frames(stack(exc[t].err)) = exc[t].g_guards

\* C3 amended: the dynamic frames of the error's trace are exactly
\* [A, B, C], in that order, and the trace holds one more frame: the static
\* frame the thread's log was constructed with.
C3_DynamicFramesAreGuardFrames ==
    \A t \in Threads :
        exc[t].phase # "none" =>
            /\ stack(exc[t].err).dynamic_frames_ = exc[t].g_guards
            /\ stack(exc[t].err).static_frames_ = <<StaticFrame>>
            /\ Len(Frames(stack(exc[t].err))) = Len(exc[t].g_guards) + 1

\* An error was constructed under three guards, not all of one function.
C3_Witness ==
    \E t \in Threads :
        /\ exc[t].phase # "none"
        /\ Len(exc[t].g_guards) = 3
        /\ exc[t].g_guards[1] # exc[t].g_guards[3]
        /\ stack(exc[t].err).dynamic_frames_ = exc[t].g_guards

\* C4: the trace an error holds is the value the log had when the error
\* was constructed, whatever was pushed or popped since, on any thread.
C4_TraceIsSnapshot ==
    \A t \in Threads :
        exc[t].phase # "none" => stack(exc[t].err) = exc[t].g_trace

\* The error is being handled after guards were popped by the unwinding and
\* a guard was pushed by the handler: the log differs from the snapshot.
C4_Witness ==
    \E t \in Threads :
        /\ exc[t].phase = "handled"
        /\ exc[t].popped >= 1
        /\ Len(scopes[t]) > exc[t].hdepth
        /\ logs[current_trace(t)] # exc[t].g_trace
        /\ stack(exc[t].err) = exc[t].g_trace

\* C5: a thread whose guarded scopes have all exited has no dynamic frame
\* left, and an error raised k guarded levels below a handler reaches it
\* after exactly k pops, the frames of the handler's own and enclosing
\* guards being the ones that remain.
C5_FramesPoppedOnExit ==
    \A t \in Threads :
        /\ scopes[t] = <<>> => Dynamic(t) = <<>>
        /\ exc[t].phase = "handled" =>
            /\ exc[t].popped = exc[t].g_k
            /\ exc[t].hdepth = Len(exc[t].g_guards) - exc[t].g_k
            /\ SubSeq(Dynamic(t), 1, exc[t].hdepth)
                 = SubSeq(exc[t].g_guards, 1, exc[t].hdepth)
            /\ Len(scopes[t]) = exc[t].hdepth => Len(Dynamic(t)) = exc[t].hdepth

\* An error raised two guarded levels below the handler has reached it.
C5_Witness ==
    \E t \in Threads :
        /\ exc[t].phase = "handled"
        /\ exc[t].g_k = 2
        /\ exc[t].popped = 2
        /\ Len(scopes[t]) = exc[t].hdepth
        /\ Dynamic(t) = <<GuardFrame("processOrder")>>

\* C7: every thread's log starts with no dynamic frame; a step of one
\* thread leaves the log of every other thread as it was; and an error
\* captures the frames pushed by the live guards of the thread raising it.
C7_ThreadsHaveIndependentLogs ==
    /\ \A t \in Threads : logs[current_trace(t)].dynamic_frames_ = <<>>
    /\ [][\A t \in Threads :
            ThreadStep(t) =>
               /\ \A u \in Threads \ {t} : logs'[u] = logs[u]
               /\ Throw(t) =>
                    exc'[t].err.backtrace_.dynamic_frames_ = Pushed(scopes[t])]_vars

\* An error was raised on one thread while the other thread had guards of
\* its own alive, pushing other frames.
C7_Witness ==
    \E t \in Threads : \E u \in Threads \ {t} :
        /\ exc[t].phase # "none"
        /\ Len(scopes[u]) >= 1
        /\ Dynamic(u) # <<>>
        /\ Dynamic(u)[1] # exc[t].g_guards[1]
        /\ exc[t].err.backtrace_.dynamic_frames_ = exc[t].g_guards

\* C8 as stated: every live guard object has pushed a frame of its own, and
\* the guards of a thread have executed no more pops than pushes.
C8_GuardPushesOncePopsOnce ==
    \A t \in Threads :
        /\ balance[t] >= 0
        /\ \A i \in 1..Len(scopes[t]) : scopes[t][i].pushed # NoFrame

\* What was given to the constructor of the error of thread t.
Given(op, x) ==
    CASE op = "data"  -> x.g_args.data
      [] op = "what"  -> x.g_args.str
      [] op = "where" -> x.g_args.loc
      [] op = "stack" -> x.g_trace

\* C10: a call of what(), data(), where() or stack() returns what the
\* error was constructed with and changes neither the error nor any log.
C10_AccessorsArePureReads ==
    [][\A t \in Threads : \A op \in Accessors :
         Read(t, op) =>
            /\ ret'.value = Given(op, exc[t])
            /\ exc' = exc
            /\ logs' = logs]_vars

\* The handler has called where() on the error it caught.
C10_Witness ==
    /\ ret.op = "where"
    /\ ret.value = ThrowFrame("findOrder")
    /\ exc[ret.of].phase = "handled"

\* C6: pop_dynamic_frame on a log without dynamic frames leaves the log,
\* dynamic and static frames, exactly as it was, the first time and every
\* time after.
C6_PopOnEmptyIsNoOp ==
    (last.op = "pop" /\ last.before.dynamic_frames_ = <<>>) => log = last.before

\* pop_dynamic_frame was called twice in a row on a log without dynamic
\* frames.
C6_Witness ==
    /\ last.op = "pop"
    /\ last.prev = "pop"
    /\ last.before.dynamic_frames_ = <<>>
    /\ log = HybridStackTrace(StaticFrame)

DemoChain == <<GuardFrame("main"), GuardFrame("processOrder"), GuardFrame("findOrder")>>

\* C9 as stated: the error processOrder catches carries a trace of three
\* entries, one per enclosing instrumented function, outermost first:
\* main, processOrder, findOrder.
C9_CaughtTraceHasThreeEntries ==
    pc = "processOrder_catch" =>
        /\ Len(Render(stack(exc[MainThread].err))) = 3
        /\ Frames(stack(exc[MainThread].err)) = DemoChain

\* C9 amended: the trace of the caught error has three dynamic entries,
\* main, processOrder, findOrder in this order, after one static entry (the
\* place current_trace is defined): four entries, and four lines printed.
C9_CaughtTraceHasThreeDynamicEntries ==
    pc = "processOrder_catch" =>
        /\ id \notin DOMAIN orders
        /\ stack(exc[MainThread].err).dynamic_frames_ = DemoChain
        /\ Len(Render(stack(exc[MainThread].err))) = 4
        /\ Render(stack(exc[MainThread].err))[1] = [label |-> "Static", frame |-> StaticFrame]
        /\ \A i \in 1..3 :
             Render(stack(exc[MainThread].err))[i + 1] = [label |-> "Dynamic", frame |-> DemoChain[i]]

\* main was run with id 10 and the error of findOrder is in processOrder's
\* handler.
C9_Witness ==
    /\ pc = "processOrder_catch"
    /\ id = 10
    /\ DOMAIN orders = {1, 11}
    /\ exc[MainThread].phase = "handled"
    /\ what(exc[MainThread].err) = "Bad Order id"

C12_DynamicFramesAreLifo ==
    /\ last.op = "add" =>
        /\ Len(log.dynamic_frames_) = Len(last.before.dynamic_frames_) + 1
        /\ log.dynamic_frames_[Len(log.dynamic_frames_)] = last.arg
        /\ SubSeq(log.dynamic_frames_, 1, Len(last.before.dynamic_frames_))
             = last.before.dynamic_frames_
    /\ (last.op = "pop" /\ last.before.dynamic_frames_ # <<>>) =>
        /\ Len(log.dynamic_frames_) = Len(last.before.dynamic_frames_) - 1
        /\ \A i \in 1..Len(log.dynamic_frames_) :
             log.dynamic_frames_[i] = last.before.dynamic_frames_[i]
    /\ (last.op = "pop" /\ last.prev = "add") =>
        log.dynamic_frames_ = last.before2.dynamic_frames_

\* A frame was added to a log of two different frames and popped again.
C12_Witness ==
    /\ last.op = "pop"
    /\ last.prev = "add"
    /\ Len(last.before2.dynamic_frames_) = 2
    /\ last.before2.dynamic_frames_[1] # last.before2.dynamic_frames_[2]
    /\ last.before.dynamic_frames_[3] # last.before2.dynamic_frames_[2]
    /\ log = last.before2

\* C13: rendering prints one line per frame of the trace, and the dynamic
\* frames in the order they were pushed: the frame pushed last is the last
\* line, after the lines of the log as it was before that push.
C13_RenderOneLinePerFrameInPushOrder ==
    /\ Len(Render(log)) = Len(log.static_frames_) + Len(log.dynamic_frames_)
    /\ \A i \in 1..Len(Render(log)) : Render(log)[i].frame = Frames(log)[i]
    /\ \A i \in 1..Len(log.dynamic_frames_) :
         Render(log)[Len(log.static_frames_) + i]
           = [label |-> "Dynamic", frame |-> log.dynamic_frames_[i]]
    /\ last.op = "add" =>
         Render(log) = Render(last.before)
                       \o <<[label |-> "Dynamic", frame |-> last.arg]>>

\* A log of three frames of which the last pushed differs from the first.
C13_Witness ==
    /\ last.op = "add"
    /\ Len(log.dynamic_frames_) = 3
    /\ log.dynamic_frames_[1] # log.dynamic_frames_[3]
    /\ Len(Render(log)) = 4
    /\ Render(log)[4].frame = last.arg

\* C16: every trace log holds exactly one static frame, the one it was
\* constructed with, whatever was added to or popped from it, and the copy
\* an error takes holds that static frame and the dynamic frames.
C16_OneStaticFrame ==
    \A t \in Threads :
        /\ logs[current_trace(t)].static_frames_ = <<StaticFrame>>
        /\ exc[t].phase # "none" =>
            /\ stack(exc[t].err).static_frames_
                 = logs[exc[t].err.trace_arg].static_frames_
            /\ Len(stack(exc[t].err).static_frames_) = 1
            /\ Len(Frames(stack(exc[t].err))) = 1 + Len(exc[t].g_guards)

\* An error holds a copy taken under two guards, one of which has been
\* popped since.
C16_Witness ==
    \E t \in Threads :
        /\ exc[t].phase # "none"
        /\ Len(exc[t].g_guards) = 2
        /\ exc[t].popped = 1
        /\ Len(logs[current_trace(t)].dynamic_frames_) = 1
        /\ stack(exc[t].err).static_frames_ = <<StaticFrame>>

\* C14: UpdateOrder on an order whose id is not in the order table raises
\* the error "update error : ", leaves the table as it was and has popped
\* its guard's frame when the caller sees the error; on an id in the table
\* it overwrites that entry and no other with the order, returns it and
\* raises nothing.
C14_UpdateOrderOutcome ==
    LET e == exc[MainThread]
        o == upd.ord
    IN  /\ pc = "caller_catch" =>
            /\ o.id_ \notin DOMAIN upd.before
            /\ e.phase = "handled"
            /\ what(e.err) = "update error : "
            /\ orders = upd.before
            /\ logs[current_trace(MainThread)] = upd.log
            /\ ret = NoRet
        /\ pc = "caller_returned" =>
            /\ o.id_ \in DOMAIN upd.before
            /\ DOMAIN orders = DOMAIN upd.before
            /\ orders[o.id_] = o
            /\ \A k \in DOMAIN orders \ {o.id_} : orders[k] = upd.before[k]
            /\ ret = [op |-> "UpdateOrder", value |-> o]
            /\ e.phase = "none"
            /\ logs[current_trace(MainThread)] = upd.log

\* The caller, holding a guard of its own, caught the error for id 10 after
\* an earlier call had changed the order of id 11.
C14_Witness ==
    /\ pc = "caller_catch"
    /\ upd.ord.id_ = 10
    /\ orders[11].value_ = 7
    /\ Len(upd.log.dynamic_frames_) = 1
    /\ Len(stack(exc[MainThread].err).dynamic_frames_) = 2

\* The texts of the lines written to std::cout.
Printed == {out[i].text : i \in 1..Len(out)}

\* C15: in the demo program, for every id, the error of findOrder is
\* handled in processOrder and never reaches main: the catch-all handler of
\* main is never entered, processOrder returns true exactly when the id is
\* in the order table, and the program always reaches "End", with no
\* dynamic frame left in the trace log.
C15_DemoHandlesErrorAndEnds ==
    /\ [](/\ pc # "main_catch"
          /\ "Unknown exception" \notin Printed
          /\ exc[MainThread].phase = "handled" => pc = "processOrder_catch"
          /\ pc \in {"main_if", "main_end", "done"} =>
                /\ result = (id \in DOMAIN orders)
                /\ exc[MainThread].phase = "none"
          /\ pc = "done" =>
                /\ out[Len(out)].text = "End"
                /\ Dynamic(MainThread) = <<>>)
    /\ <>[](pc = "done")

\* The program has ended after processOrder handled the error for an id
\* that is not in the order table.
C15_Witness ==
    /\ pc = "done"
    /\ id \notin DOMAIN orders
    /\ result = FALSE
    /\ "[where] Failed to process : " \in Printed
    /\ out[Len(out)].text = "End"
    /\ Dynamic(MainThread) = <<>>

\* The numbers the colour table lists.
Listed ==
    "black" :> 7 @@ "blue" :> 3 @@ "cyan" :> 5 @@ "green" :> 2 @@
    "magenta" :> 6 @@ "red" :> 1 @@ "white" :> 8 @@ "yellow" :> 4

\* C17: Map::at(key) returns the value of the first pair of the array whose
\* key is the given key, raises the range error "Not Found" exactly when no
\* pair has the key, and leaves the map as it is; lookup_value returns the
\* listed number for each of the 8 colour names and raises for any other
\* string.
C17_AtReturnsFirstMatch ==
    /\ [](LET arr == lookup.data
              key == lookup.key
              res == lookup.res
              ms == {i \in 1..Len(arr) : arr[i][1] = key}
          IN  res.op # "none" =>
                /\ res.op = "throw" <=> ms = {}
                /\ res.op = "throw" => res.what = "Not Found"
                /\ res.op = "return" <=> ms # {}
                /\ res.op = "return" =>
                     \E i \in ms : /\ \A j \in ms : i <= j
                                   /\ res.value = arr[i][2]
                /\ arr = color_values =>
                     /\ key \in DOMAIN Listed =>
                          res = [op |-> "return", value |-> Listed[key]]
                     /\ key \notin DOMAIN Listed => res.op = "throw")
    /\ [][lookup'.data = lookup.data]_vars

\* at returned the value of the first of two pairs with the key, which the
\* second pair gives another value, after a pair with another key.
C17_Witness ==
    /\ Len(lookup.data) = 3
    /\ lookup.data[1][1] # lookup.key
    /\ lookup.data[2][1] = lookup.key
    /\ lookup.data[3][1] = lookup.key
    /\ lookup.data[2][2] # lookup.data[3][2]
    /\ lookup.res = [op |-> "return", value |-> lookup.data[2][2]]

\* C18: a CompileTimeStackTrace<N> never holds more than N frames: after
\* any number of push_frame calls its size is the smaller of that number
\* and N, a push_frame on a full container changes nothing, and the frames
\* already stored keep their values and their order.
C18_SizeIsMinOfCallsAndN ==
    /\ Len(cts.frames_) <= cts.N
    /\ Len(cts.frames_) = IF cts.calls < cts.N THEN cts.calls ELSE cts.N
    /\ cts.calls > 0 =>
        /\ Len(cts.prev) = cts.N => cts.frames_ = cts.prev
        /\ Len(cts.prev) <= Len(cts.frames_)
        /\ \A i \in 1..Len(cts.prev) : cts.frames_[i] = cts.prev[i]

\* A container of two different frames has dropped its fourth push_frame.
C18_Witness ==
    /\ cts.N = 2
    /\ cts.calls = 4
    /\ Len(cts.frames_) = 2
    /\ cts.frames_[1] # cts.frames_[2]
    /\ cts.prev = cts.frames_

====
